---- MODULE Spec2Model ----
(***************************************************************************)
(* Model of pkg/ami (Service.MigrateInstances and its helpers): the        *)
(* orchestrator goroutine, one goroutine per eligible instance, and the    *)
(* EC2 calls each of them issues.  Every EC2 call may succeed or fail.     *)
(***************************************************************************)
EXTENDS Integers, Sequences, FiniteSets, TLC

\* ---------------------------------------------------------------- bounds
\* Largest number of instances the selection query returns.
MaxInstances == 2
\* Largest number of block device mappings of one instance.
MaxVolumes == 2

\* ------------------------------------------------------------- data model
\* types.InstanceStateName of the EC2 SDK.
InstanceStateNames ==
    {"pending", "running", "shutting-down", "terminated", "stopping", "stopped"}

InstanceTypes == {"t2.micro", "m5.large"}

\* The arguments of MigrateInstances(ctx, oldAMI, newAMI, enabledValue).
oldAMI == "ami-old"
newAMI == "ami-new"
enabledValue == "enabled"

\* A nil *types.EbsInstanceBlockDevice.
NoEbs == ""
\* The error text of a failed EC2 call, and of an expired state wait.
ProviderErr == "provider error"
WaitTimeout == "exceeded max wait time"
\* time.Now().UTC().Format(time.RFC3339), abstracted to one instant.
Now == "2024-01-01T00:00:00Z"

CallOutcomes == {"ok", ProviderErr}
WaitOutcomes == {"ok", WaitTimeout}

Tag(k, v) == [Key |-> k, Value |-> v]

Range(s) == {s[k] : k \in 1..Len(s)}

InstanceIdOf(k) == "i-" \o ToString(k)
NewInstanceIdOf(k) == "new-" \o ToString(k)
VolumeIdOf(k, d) == "vol-" \o ToString(k) \o "-" \o ToString(d)

\* ------------------------------------------------------- inputs of a run
\* Tag lists of an instance the selection query can return: it always
\* carries ami-migrate=enabledValue; the if-running tag is absent, enabled or
\* set to another value; the audit triple of an earlier run is absent or
\* present.
IfRunningTags ==
    { <<>>,
      <<Tag("ami-migrate-if-running", "enabled")>>,
      <<Tag("ami-migrate-if-running", "true")>> }

\* The audit tags an earlier run left on an instance: none, the three tags of
\* a write on a source, or the two tags a replacement got from the tag copy.
PriorAuditTags ==
    { <<>>,
      <<Tag("ami-migrate-status", "completed"),
        Tag("ami-migrate-message", "Migration completed successfully"),
        Tag("ami-migrate-timestamp", "2023-06-01T00:00:00Z")>>,
      <<Tag("ami-migrate-message", "Migration completed successfully"),
        Tag("ami-migrate-timestamp", "2023-06-01T00:00:00Z")>> }

TagLists ==
    { <<Tag("ami-migrate", enabledValue)>> \o r \o a :
         r \in IfRunningTags, a \in PriorAuditTags }

\* Which mappings of an instance are EBS backed: every list of at most
\* MaxVolumes booleans.
RECURSIVE EbsFlagLists(_)
EbsFlagLists(n) ==
    IF n = 0 THEN { <<>> }
    ELSE LET shorter == EbsFlagLists(n - 1)
         IN  shorter \cup { Append(f, b) : f \in { g \in shorter : Len(g) = n - 1 },
                                           b \in BOOLEAN }

Mappings(k, flags) ==
    [ d \in 1..Len(flags) |->
        [DeviceName |-> "/dev/sd" \o ToString(d),
         Ebs |-> IF flags[d] THEN VolumeIdOf(k, d) ELSE NoEbs] ]

MkInstance(k, state, type, flags, tags) ==
    [InstanceId |-> InstanceIdOf(k),
     State |-> state,
     InstanceType |-> type,
     BlockDeviceMappings |-> Mappings(k, flags),
     Tags |-> tags]

\* Every instance shape, for the instance at position k of the answer.
AllShapes(k) ==
    { MkInstance(k, st, ty, fl, tg) :
        st \in InstanceStateNames, ty \in InstanceTypes,
        fl \in EbsFlagLists(MaxVolumes), tg \in TagLists }

\* The shapes used when several instances are migrated at once: a stopped
\* instance without EBS volumes, a running one that is migrated (one EBS
\* volume, an audit triple of an earlier run), a pending one whose if-running
\* tag is not enabled, a running one that is skipped.
FleetKinds == << "stopped", "migrated", "pending", "skipped" >>

FleetShape(kind, k) ==
    CASE kind = "stopped" ->
           MkInstance(k, "stopped", "t2.micro", <<FALSE>>,
                      <<Tag("ami-migrate", enabledValue)>>)
      [] kind = "migrated" ->
           MkInstance(k, "running", "m5.large", <<TRUE>>,
                      <<Tag("ami-migrate", enabledValue),
                        Tag("ami-migrate-if-running", "enabled"),
                        Tag("ami-migrate-status", "completed"),
                        Tag("ami-migrate-message", "Migration completed successfully"),
                        Tag("ami-migrate-timestamp", "2023-06-01T00:00:00Z")>>)
      [] kind = "pending" ->
           MkInstance(k, "pending", "m5.large", <<>>,
                      <<Tag("ami-migrate", enabledValue),
                        Tag("ami-migrate-if-running", "true")>>)
      [] kind = "skipped" ->
           MkInstance(k, "running", "t2.micro", <<>>,
                      <<Tag("ami-migrate", enabledValue)>>)

\* The fleets of n instances.  The goroutines differ only in their instance,
\* so a fleet lists its kinds in the order of FleetKinds and has one instance
\* of each kind that is migrated: the instances that are migrated come first
\* and the skipped writes of the loop fall while their goroutines run.
Fleets(n) ==
    { [k \in 1..n |-> FleetShape(FleetKinds[r[k]], k)] :
        r \in { q \in [1..n -> 1..Len(FleetKinds)] :
                  \A k \in 1..(n - 1) :
                      q[k] < q[k + 1] \/ q[k] = Len(FleetKinds) } }

\* The instances of an answer: none, one of any shape, or a fleet.
InstanceLists ==
    { <<>> } \cup { <<s>> : s \in AllShapes(1) }
             \cup UNION { Fleets(n) : n \in 2..MaxInstances }

\* DescribeInstances groups instances in reservations: all in one, or one each.
Reservations(list) ==
    { <<list>>, [k \in 1..Len(list) |-> <<list[k]>>] }

\* --------------------------------------------------------- pure helpers
\* fetchEnabledInstances: the instances of all reservations, in order.
RECURSIVE FlattenReservations(_)
FlattenReservations(rs) ==
    IF rs = <<>> THEN <<>>
    ELSE Head(rs) \o FlattenReservations(Tail(rs))

\* Variant: the if-running tag counts whatever its value.
shouldMigrateInstance_KeyOnly(instance) ==
    LET isRunning == instance.State = "running"
        hasIfRunningTag ==
            \E k \in 1..Len(instance.Tags) :
                instance.Tags[k].Key = "ami-migrate-if-running"
    IN  IF isRunning
        THEN [migrate |-> hasIfRunningTag, needsStart |-> FALSE]
        ELSE [migrate |-> TRUE, needsStart |-> FALSE]

\* Variant: the if-running tag is required in every state.
shouldMigrateInstance_TagAlways(instance) ==
    LET hasIfRunningTag ==
            \E k \in 1..Len(instance.Tags) :
                /\ instance.Tags[k].Key = "ami-migrate-if-running"
                /\ instance.Tags[k].Value = "enabled"
    IN  [migrate |-> hasIfRunningTag, needsStart |-> FALSE]

\* Variant: an instance that is not running needs the transient start.
shouldMigrateInstance_StartsStopped(instance) ==
    LET isRunning == instance.State = "running"
        hasIfRunningTag ==
            \E k \in 1..Len(instance.Tags) :
                /\ instance.Tags[k].Key = "ami-migrate-if-running"
                /\ instance.Tags[k].Value = "enabled"
    IN  IF isRunning
        THEN [migrate |-> hasIfRunningTag, needsStart |-> FALSE]
        ELSE [migrate |-> TRUE, needsStart |-> TRUE]

\* shouldMigrateInstance: (migrate, needsStart).
shouldMigrateInstance(instance) ==
    LET isRunning == instance.State = "running"
        hasIfRunningTag ==
            \E k \in 1..Len(instance.Tags) :
                /\ instance.Tags[k].Key = "ami-migrate-if-running"
                /\ instance.Tags[k].Value = "enabled"
    IN  IF isRunning
        THEN [migrate |-> hasIfRunningTag, needsStart |-> FALSE]
        ELSE [migrate |-> TRUE, needsStart |-> FALSE]

\* Variant: every tag is copied.
CopiedTags_NoFilter(tags) == tags

\* copyTags: the tag list sent to the new instance.
CopiedTags(tags) ==
    SelectSeq(tags, LAMBDA t : t.Key # "ami-migrate-status")

\* Variant: the audit write lacks the timestamp tag.
StatusTags_NoTimestamp(status, message) ==
    << Tag("ami-migrate-status", status),
       Tag("ami-migrate-message", message) >>

\* tagInstanceStatus: the three tags of one audit write.
StatusTags(status, message) ==
    << Tag("ami-migrate-status", status),
       Tag("ami-migrate-message", message),
       Tag("ami-migrate-timestamp", Now) >>

\* One EC2 call as recorded in a log: the operation, the resource it names,
\* its other parameters, and its result ("ok" or the error).
Call(op, target, res) ==
    [op |-> op, target |-> target, res |-> res,
     tags |-> <<>>, desc |-> "", image |-> "", itype |-> "", min |-> 0, max |-> 0]

CreateTagsCall(target, tags, res) ==
    [Call("CreateTags", target, res) EXCEPT !.tags = tags]

\* EC2 CreateTags: a tag of the request replaces the tag with the same key.
ApplyTags(current, tags) ==
    { t \in current : \A k \in 1..Len(tags) : tags[k].Key # t.Key }
        \cup { tags[k] : k \in { j \in 1..Len(tags) :
                                   \A l \in (j + 1)..Len(tags) : tags[l].Key # tags[j].Key } }

\* Variant: the snapshot loop does not test mapping.Ebs.
NextEbs_AnyMapping(instance, from) ==
    IF from <= Len(instance.BlockDeviceMappings) THEN from ELSE 0

\* The index of the first EBS backed mapping at or after position from, or 0.
NextEbs(instance, from) ==
    LET ks == { k \in from..Len(instance.BlockDeviceMappings) :
                  instance.BlockDeviceMappings[k].Ebs # NoEbs }
    IN  IF ks = {} THEN 0 ELSE CHOOSE k \in ks : \A j \in ks : k <= j

\* Variant: the source is stopped whatever its state.
AfterSnapshots_AlwaysStops(instance) == "stop"

\* upgradeInstance after its snapshot loop: stop a running source, else launch.
AfterSnapshots(instance) ==
    IF instance.State = "running" THEN "stop" ELSE "run"

\* Where upgradeInstance continues once the mappings before from are done.
SnapshotsFrom(instance, from) ==
    IF NextEbs(instance, from) # 0 THEN "snapshot" ELSE AfterSnapshots(instance)

\* ------------------------------------------------------------------ state
VARIABLES
    resp,        \* the answer DescribeInstances gives: a list of reservations
    instances,   \* MigrateInstances' local list of instances
    mainPc,      \* position of MigrateInstances: "fetch", "loop", "returned"
    idx,         \* index of the range loop over instances
    ret,         \* MigrateInstances' result: "none", "nil", "error"
    wg,          \* counter of the sync.WaitGroup
    tpc,         \* per instance: position of its goroutine
    snapIdx,     \* per instance: next block device mapping of the snapshot loop
    tmsg,        \* per instance: message of the pending failed/warning write
    newInst,     \* per instance: id of the instance RunInstances returned, or ""
    calls,       \* per instance: the EC2 calls its goroutine has made, in order
    mainCalls,   \* the EC2 calls MigrateInstances' own goroutine has made
    cloudTags    \* EC2 side: the tags of every instance, by instance id

vars == << resp, instances, mainPc, idx, ret, wg, tpc, snapIdx, tmsg, newInst,
           calls, mainCalls, cloudTags >>

taskVars == << tpc, snapIdx, tmsg, newInst, calls >>
mainVars == << resp, instances, mainPc, idx, ret >>

Init ==
    /\ \E list \in InstanceLists :
         /\ resp \in Reservations(list)
         /\ cloudTags = [ id \in { list[k].InstanceId : k \in 1..Len(list) } |->
                            Range((CHOOSE s \in Range(list) : s.InstanceId = id).Tags) ]
    /\ instances = <<>>
    /\ mainPc = "fetch"
    /\ idx = 0
    /\ ret = "none"
    /\ wg = 0
    /\ tpc = <<>>
    /\ snapIdx = <<>>
    /\ tmsg = <<>>
    /\ newInst = <<>>
    /\ calls = <<>>
    /\ mainCalls = <<>>

\* The effect of one CreateTags request on the EC2 side.
TagsAfter(target, tags, res) ==
    IF res = "ok" /\ target \in DOMAIN cloudTags
    THEN [cloudTags EXCEPT ![target] = ApplyTags(@, tags)]
    ELSE cloudTags

\* --------------------------------------------------- MigrateInstances
\* Variant: the error of the selection query is dropped.
fetchEnabledInstances_ErrorDropped ==
    /\ mainPc = "fetch"
    /\ \E res \in CallOutcomes :
         /\ mainCalls' = Append(mainCalls, Call("DescribeInstances", "", res))
         /\ instances' = FlattenReservations(resp)
         /\ IF Len(instances') = 0
            THEN ret' = "nil" /\ mainPc' = "returned"
            ELSE ret' = ret /\ mainPc' = "loop"
    /\ resp' = <<>>
    /\ idx' = 1
    /\ tpc' = [k \in 1..Len(instances') |-> "idle"]
    /\ snapIdx' = [k \in 1..Len(instances') |-> 1]
    /\ tmsg' = [k \in 1..Len(instances') |-> ""]
    /\ newInst' = [k \in 1..Len(instances') |-> ""]
    /\ calls' = [k \in 1..Len(instances') |-> <<>>]
    /\ UNCHANGED << wg, cloudTags >>

\* Lines 79-86: the selection query, its error return, the empty return.
fetchEnabledInstances ==
    /\ mainPc = "fetch"
    /\ \E res \in CallOutcomes :
         /\ mainCalls' = Append(mainCalls, Call("DescribeInstances", "", res))
         /\ IF res # "ok"
            THEN /\ instances' = <<>>
                 /\ ret' = "error"
                 /\ mainPc' = "returned"
            ELSE /\ instances' = FlattenReservations(resp)
                 /\ IF Len(instances') = 0
                    THEN ret' = "nil" /\ mainPc' = "returned"
                    ELSE ret' = ret /\ mainPc' = "loop"
    /\ resp' = <<>>
    /\ idx' = 1
    /\ tpc' = [k \in 1..Len(instances') |-> "idle"]
    /\ snapIdx' = [k \in 1..Len(instances') |-> 1]
    /\ tmsg' = [k \in 1..Len(instances') |-> ""]
    /\ newInst' = [k \in 1..Len(instances') |-> ""]
    /\ calls' = [k \in 1..Len(instances') |-> <<>>]
    /\ UNCHANGED << wg, cloudTags >>

\* Variant: the skip branch lacks its continue and the goroutine is started too.
SkipInstance_NoContinue ==
    /\ mainPc = "loop"
    /\ idx <= Len(instances)
    /\ ~shouldMigrateInstance(instances[idx]).migrate
    /\ \E res \in CallOutcomes :
         LET tags == StatusTags("skipped",
                        "Instance state or tags do not meet migration criteria")
             id == instances[idx].InstanceId
         IN  /\ mainCalls' = Append(mainCalls, CreateTagsCall(id, tags, res))
             /\ cloudTags' = TagsAfter(id, tags, res)
    /\ wg' = wg + 1
    /\ tpc' = [tpc EXCEPT ![idx] = "spawned"]
    /\ idx' = idx + 1
    /\ UNCHANGED << resp, instances, mainPc, ret, snapIdx, tmsg, newInst, calls >>

\* Lines 90-94: an instance that is not migrated gets the skipped write.
SkipInstance ==
    /\ mainPc = "loop"
    /\ idx <= Len(instances)
    /\ ~shouldMigrateInstance(instances[idx]).migrate
    /\ \E res \in CallOutcomes :
         LET tags == StatusTags("skipped",
                        "Instance state or tags do not meet migration criteria")
             id == instances[idx].InstanceId
         IN  /\ mainCalls' = Append(mainCalls, CreateTagsCall(id, tags, res))
             /\ cloudTags' = TagsAfter(id, tags, res)
    /\ idx' = idx + 1
    /\ UNCHANGED << resp, instances, mainPc, ret, wg, taskVars >>

\* Lines 96-97 and 125: wg.Add(1) and the go statement.
SpawnTask ==
    /\ mainPc = "loop"
    /\ idx <= Len(instances)
    /\ shouldMigrateInstance(instances[idx]).migrate
    /\ wg' = wg + 1
    /\ tpc' = [tpc EXCEPT ![idx] = "spawned"]
    /\ idx' = idx + 1
    /\ UNCHANGED << resp, instances, mainPc, ret, snapIdx, tmsg, newInst, calls,
                    mainCalls, cloudTags >>

\* Variant: the return does not wait for the goroutines.
WaitReturn_NoWait ==
    /\ mainPc = "loop"
    /\ idx > Len(instances)
    /\ mainPc' = "returned"
    /\ ret' = "nil"
    /\ UNCHANGED << resp, instances, idx, wg, taskVars, mainCalls, cloudTags >>

\* Variant: the return reports a goroutine that ended failed.
WaitReturn_ReportsFailure ==
    /\ mainPc = "loop"
    /\ idx > Len(instances)
    /\ wg = 0
    /\ mainPc' = "returned"
    /\ ret' = IF \E i \in 1..Len(instances) : tmsg[i] # "" THEN "error" ELSE "nil"
    /\ UNCHANGED << resp, instances, idx, wg, taskVars, mainCalls, cloudTags >>

\* Lines 127-129: wg.Wait() and return nil.
WaitReturn ==
    /\ mainPc = "loop"
    /\ idx > Len(instances)
    /\ wg = 0
    /\ mainPc' = "returned"
    /\ ret' = "nil"
    /\ UNCHANGED << resp, instances, idx, wg, taskVars, mainCalls, cloudTags >>

\* ------------------------------------------------ the goroutine of instance i
Log(i, call) == calls' = [calls EXCEPT ![i] = Append(@, call)]

\* An error return of a step: the terminal write that is pending, and its message.
Fail(i, status, message) ==
    /\ tpc' = [tpc EXCEPT ![i] = status]
    /\ tmsg' = [tmsg EXCEPT ![i] = message]

Goto(i, pc) ==
    /\ tpc' = [tpc EXCEPT ![i] = pc]
    /\ tmsg' = tmsg

\* Variant: the goroutine starts without the in-progress write.
TagInProgress_Omitted(i) ==
    /\ tpc[i] = "spawned"
    /\ Goto(i, SnapshotsFrom(instances[i], 1))
    /\ UNCHANGED << mainVars, wg, snapIdx, newInst, calls, mainCalls, cloudTags >>

\* Variant: an error of the in-progress write ends the goroutine as failed.
TagInProgress_ErrorAborts(i) ==
    /\ tpc[i] = "spawned"
    /\ LET inst == instances[i]
           tags == StatusTags("in-progress", "Starting migration")
       IN  \E res \in CallOutcomes :
             /\ Log(i, CreateTagsCall(inst.InstanceId, tags, res))
             /\ cloudTags' = TagsAfter(inst.InstanceId, tags, res)
             /\ IF res # "ok"
                THEN Fail(i, "failed", "Failed to tag instance: " \o res)
                ELSE Goto(i, SnapshotsFrom(inst, 1))
    /\ UNCHANGED << mainVars, wg, snapIdx, newInst, mainCalls >>

\* Lines 100-108: the in-progress write, then the choice of the next step.
TagInProgress(i) ==
    /\ tpc[i] = "spawned"
    /\ LET inst == instances[i]
           tags == StatusTags("in-progress", "Starting migration")
       IN  /\ \E res \in CallOutcomes :
                /\ Log(i, CreateTagsCall(inst.InstanceId, tags, res))
                /\ cloudTags' = TagsAfter(inst.InstanceId, tags, res)
           /\ IF shouldMigrateInstance(inst).needsStart /\ inst.State # "running"
              THEN Goto(i, "start")
              ELSE Goto(i, SnapshotsFrom(inst, 1))
    /\ UNCHANGED << mainVars, wg, snapIdx, newInst, mainCalls >>

\* Variant: the error of CreateSnapshot is dropped.
CreateSnapshot_ErrorDropped(i) ==
    /\ tpc[i] = "snapshot"
    /\ LET inst == instances[i]
           k == NextEbs(inst, snapIdx[i])
       IN  \E res \in CallOutcomes :
             /\ Log(i, [Call("CreateSnapshot", inst.BlockDeviceMappings[k].Ebs, res)
                          EXCEPT !.desc = "Backup before AMI migration for instance "
                                              \o inst.InstanceId])
             /\ snapIdx' = [snapIdx EXCEPT ![i] = k + 1]
             /\ Goto(i, SnapshotsFrom(inst, k + 1))
    /\ UNCHANGED << mainVars, wg, newInst, mainCalls, cloudTags >>

\* Lines 210-221: the snapshot of the next EBS backed mapping.
CreateSnapshot(i) ==
    /\ tpc[i] = "snapshot"
    /\ LET inst == instances[i]
           k == NextEbs(inst, snapIdx[i])
       IN  \E res \in CallOutcomes :
             /\ Log(i, [Call("CreateSnapshot", inst.BlockDeviceMappings[k].Ebs, res)
                          EXCEPT !.desc = "Backup before AMI migration for instance "
                                              \o inst.InstanceId])
             /\ snapIdx' = [snapIdx EXCEPT ![i] = k + 1]
             /\ IF res # "ok"
                THEN Fail(i, "failed",
                          "Failed to upgrade instance: create snapshot: " \o res)
                ELSE Goto(i, SnapshotsFrom(inst, k + 1))
    /\ UNCHANGED << mainVars, wg, newInst, mainCalls, cloudTags >>

\* What an error of startInstance or stopInstance leads to, by call site:
\* lines 104-107, 225-227 and 118-121.
LifecycleFailure(i, site, err) ==
    CASE site = "start" ->
           Fail(i, "failed", "Failed to start instance: " \o err)
      [] site = "stop" ->
           Fail(i, "failed", "Failed to upgrade instance: stop instance: " \o err)
      [] site = "poststop" ->
           Fail(i, "warning",
                "Migration successful but failed to stop instance: " \o err)

\* Lines 177-183 and 193-199: StartInstances or StopInstances of the source.
IssueLifecycle(i) ==
    /\ tpc[i] \in {"start", "stop", "poststop"}
    /\ LET inst == instances[i]
           op == IF tpc[i] = "start" THEN "StartInstances" ELSE "StopInstances"
       IN  \E res \in CallOutcomes :
             /\ Log(i, Call(op, inst.InstanceId, res))
             /\ IF res # "ok"
                THEN LifecycleFailure(i, tpc[i], res)
                ELSE Goto(i, tpc[i] \o "wait")
    /\ UNCHANGED << mainVars, wg, snapIdx, newInst, mainCalls, cloudTags >>

\* Variant: the result of the wait is dropped.
WaitLifecycle_ResultDropped(i) ==
    /\ tpc[i] \in {"startwait", "stopwait", "poststopwait"}
    /\ LET inst == instances[i]
           op == IF tpc[i] = "startwait" THEN "WaitRunning" ELSE "WaitStopped"
       IN  \E res \in WaitOutcomes :
             /\ Log(i, Call(op, inst.InstanceId, res))
             /\ Goto(i, CASE tpc[i] = "startwait" -> SnapshotsFrom(inst, 1)
                          [] tpc[i] = "stopwait" -> "run"
                          [] tpc[i] = "poststopwait" -> "completed")
    /\ UNCHANGED << mainVars, wg, snapIdx, newInst, mainCalls, cloudTags >>

\* Lines 185-189 and 201-205: the waiter polls until the state is reached or
\* the five minutes are over.
WaitLifecycle(i) ==
    /\ tpc[i] \in {"startwait", "stopwait", "poststopwait"}
    /\ LET inst == instances[i]
           op == IF tpc[i] = "startwait" THEN "WaitRunning" ELSE "WaitStopped"
       IN  \E res \in WaitOutcomes :
             /\ Log(i, Call(op, inst.InstanceId, res))
             /\ IF res # "ok"
                THEN LifecycleFailure(i, CASE tpc[i] = "startwait" -> "start"
                                           [] tpc[i] = "stopwait" -> "stop"
                                           [] tpc[i] = "poststopwait" -> "poststop",
                                      res)
                ELSE Goto(i, CASE tpc[i] = "startwait" -> SnapshotsFrom(inst, 1)
                               [] tpc[i] = "stopwait" -> "run"
                               [] tpc[i] = "poststopwait" -> "completed")
    /\ UNCHANGED << mainVars, wg, snapIdx, newInst, mainCalls, cloudTags >>

\* Variant: the launch uses the old AMI.
RunInstances_OldImage(i) ==
    /\ tpc[i] = "run"
    /\ LET inst == instances[i]
       IN  \E res \in CallOutcomes :
             /\ Log(i, [Call("RunInstances", "", res)
                          EXCEPT !.image = oldAMI, !.itype = inst.InstanceType,
                                 !.min = 1, !.max = 1])
             /\ IF res # "ok"
                THEN /\ Fail(i, "failed",
                             "Failed to upgrade instance: run instances: " \o res)
                     /\ UNCHANGED << newInst, cloudTags >>
                ELSE /\ Goto(i, "terminate")
                     /\ newInst' = [newInst EXCEPT ![i] = NewInstanceIdOf(i)]
                     /\ cloudTags' = [id \in DOMAIN cloudTags \cup {NewInstanceIdOf(i)} |->
                                        IF id \in DOMAIN cloudTags
                                        THEN cloudTags[id] ELSE {}]
    /\ UNCHANGED << mainVars, wg, snapIdx, mainCalls >>

\* Variant: an error of the launch is dropped.
RunInstances_ErrorDropped(i) ==
    /\ tpc[i] = "run"
    /\ LET inst == instances[i]
       IN  \E res \in CallOutcomes :
             /\ Log(i, [Call("RunInstances", "", res)
                          EXCEPT !.image = newAMI, !.itype = inst.InstanceType,
                                 !.min = 1, !.max = 1])
             /\ Goto(i, "terminate")
             /\ IF res # "ok"
                THEN UNCHANGED << newInst, cloudTags >>
                ELSE /\ newInst' = [newInst EXCEPT ![i] = NewInstanceIdOf(i)]
                     /\ cloudTags' = [id \in DOMAIN cloudTags \cup {NewInstanceIdOf(i)} |->
                                        IF id \in DOMAIN cloudTags
                                        THEN cloudTags[id] ELSE {}]
    /\ UNCHANGED << mainVars, wg, snapIdx, mainCalls >>

\* Lines 230-241: launch one instance of the new AMI.
\* A successful call with MinCount = MaxCount = 1 returns one instance, whose
\* id line 252 reads as runResult.Instances[0].
RunInstances(i) ==
    /\ tpc[i] = "run"
    /\ LET inst == instances[i]
       IN  \E res \in CallOutcomes :
             /\ Log(i, [Call("RunInstances", "", res)
                          EXCEPT !.image = newAMI, !.itype = inst.InstanceType,
                                 !.min = 1, !.max = 1])
             /\ IF res # "ok"
                THEN /\ Fail(i, "failed",
                             "Failed to upgrade instance: run instances: " \o res)
                     /\ UNCHANGED << newInst, cloudTags >>
                ELSE /\ Goto(i, "terminate")
                     /\ newInst' = [newInst EXCEPT ![i] = NewInstanceIdOf(i)]
                     /\ cloudTags' = [id \in DOMAIN cloudTags \cup {NewInstanceIdOf(i)} |->
                                        IF id \in DOMAIN cloudTags
                                        THEN cloudTags[id] ELSE {}]
    /\ UNCHANGED << mainVars, wg, snapIdx, mainCalls >>

\* Variant: the error of TerminateInstances is dropped.
TerminateInstances_ErrorDropped(i) ==
    /\ tpc[i] = "terminate"
    /\ \E res \in CallOutcomes :
         /\ Log(i, Call("TerminateInstances", instances[i].InstanceId, res))
         /\ Goto(i, "copy")
    /\ UNCHANGED << mainVars, wg, snapIdx, newInst, mainCalls, cloudTags >>

\* Lines 243-249: terminate the source.
TerminateInstances(i) ==
    /\ tpc[i] = "terminate"
    /\ \E res \in CallOutcomes :
         /\ Log(i, Call("TerminateInstances", instances[i].InstanceId, res))
         /\ IF res # "ok"
            THEN Fail(i, "failed",
                      "Failed to upgrade instance: terminate instance: " \o res)
            ELSE Goto(i, "copy")
    /\ UNCHANGED << mainVars, wg, snapIdx, newInst, mainCalls, cloudTags >>

\* Variant: the error of the tag copy is dropped.
copyTags_ErrorDropped(i) ==
    /\ tpc[i] = "copy"
    /\ LET inst == instances[i]
           tags == CopiedTags(inst.Tags)
       IN  \E res \in CallOutcomes :
             /\ Log(i, CreateTagsCall(newInst[i], tags, res))
             /\ cloudTags' = TagsAfter(newInst[i], tags, res)
             /\ Goto(i, "completed")
    /\ UNCHANGED << mainVars, wg, snapIdx, newInst, mainCalls >>

\* Lines 251-254 and 259-276: copy the source's tags to the new instance.
copyTags(i) ==
    /\ tpc[i] = "copy"
    /\ LET inst == instances[i]
           tags == CopiedTags(inst.Tags)
       IN  \E res \in CallOutcomes :
             /\ Log(i, CreateTagsCall(newInst[i], tags, res))
             /\ cloudTags' = TagsAfter(newInst[i], tags, res)
             /\ IF res # "ok"
                THEN Fail(i, "failed",
                          "Failed to upgrade instance: copy tags: " \o res)
                ELSE IF shouldMigrateInstance(inst).needsStart /\ inst.State # "running"
                     THEN Goto(i, "poststop")
                     ELSE Goto(i, "completed")
    /\ UNCHANGED << mainVars, wg, snapIdx, newInst, mainCalls >>

\* Variant: the goroutine reads the loop variable instead of its parameter.
TerminalTarget_LoopVariable(i) ==
    instances[IF idx <= Len(instances) THEN idx ELSE Len(instances)].InstanceId

\* The instance the terminal write names: inst, the source (lines 105-124).
TerminalTarget(i) == instances[i].InstanceId

\* Variant: the goroutine has no deferred wg.Done().
TagTerminal_NoDone(i) ==
    /\ tpc[i] \in {"failed", "warning", "completed"}
    /\ LET message == IF tpc[i] = "completed"
                      THEN "Migration completed successfully" ELSE tmsg[i]
           tags == StatusTags(tpc[i], message)
       IN  \E res \in CallOutcomes :
             /\ Log(i, CreateTagsCall(TerminalTarget(i), tags, res))
             /\ cloudTags' = TagsAfter(TerminalTarget(i), tags, res)
    /\ tpc' = [tpc EXCEPT ![i] = "done"]
    /\ UNCHANGED << mainVars, wg, snapIdx, tmsg, newInst, mainCalls >>

\* Lines 105, 112, 119, 124 and 98: the terminal write; its error is dropped;
\* the goroutine returns and the deferred wg.Done() runs.
TagTerminal(i) ==
    /\ tpc[i] \in {"failed", "warning", "completed"}
    /\ LET message == IF tpc[i] = "completed"
                      THEN "Migration completed successfully" ELSE tmsg[i]
           tags == StatusTags(tpc[i], message)
       IN  \E res \in CallOutcomes :
             /\ Log(i, CreateTagsCall(TerminalTarget(i), tags, res))
             /\ cloudTags' = TagsAfter(TerminalTarget(i), tags, res)
    /\ tpc' = [tpc EXCEPT ![i] = "done"]
    /\ wg' = wg - 1
    /\ UNCHANGED << mainVars, snapIdx, tmsg, newInst, mainCalls >>

Next ==
    \/ fetchEnabledInstances
    \/ SkipInstance
    \/ SpawnTask
    \/ WaitReturn
    \/ \E i \in 1..Len(instances) : TagInProgress(i)
    \/ \E i \in 1..Len(instances) : CreateSnapshot(i)
    \/ \E i \in 1..Len(instances) : IssueLifecycle(i)
    \/ \E i \in 1..Len(instances) : WaitLifecycle(i)
    \/ \E i \in 1..Len(instances) : RunInstances(i)
    \/ \E i \in 1..Len(instances) : TerminateInstances(i)
    \/ \E i \in 1..Len(instances) : copyTags(i)
    \/ \E i \in 1..Len(instances) : TagTerminal(i)

Spec == Init /\ [][Next]_vars

\* The steps of the calling goroutine, and those of the goroutine of
\* instance i.
MainStep == fetchEnabledInstances \/ SkipInstance \/ SpawnTask \/ WaitReturn

TaskStep(i) ==
    /\ i \in 1..Len(instances)
    /\ \/ TagInProgress(i) \/ CreateSnapshot(i) \/ IssueLifecycle(i)
       \/ WaitLifecycle(i) \/ RunInstances(i) \/ TerminateInstances(i)
       \/ copyTags(i) \/ TagTerminal(i)

\* The program under a fair scheduler and an EC2 whose calls and waiters
\* return: every action is a call together with its return, so a goroutine
\* that can take a step eventually takes one; wg.Wait() of line 127 returns
\* once the counter is zero.
FairSpec ==
    /\ Init /\ [][Next]_vars
    /\ WF_vars(MainStep)
    /\ \A i \in 1..MaxInstances : WF_vars(TaskStep(i))

\* ------------------------------------------------------------ properties
Tasks == 1..Len(instances)

\* The selection query was made and succeeded / failed.
DescribeSucceeded == mainCalls # <<>> /\ mainCalls[1].res = "ok"
DescribeFailed == mainCalls # <<>> /\ mainCalls[1].res # "ok"

MutatingOps ==
    {"CreateTags", "CreateSnapshot", "StartInstances", "StopInstances",
     "RunInstances", "TerminateInstances"}

HasIfRunningEnabled(inst) ==
    Tag("ami-migrate-if-running", "enabled") \in Range(inst.Tags)

RunningWithoutTag(inst) == inst.State = "running" /\ ~HasIfRunningEnabled(inst)

\* The call is an audit write with this status.
IsAudit(call, status) ==
    /\ call.op = "CreateTags"
    /\ Len(call.tags) = 3
    /\ call.tags[1] = Tag("ami-migrate-status", status)
    /\ call.tags[2].Key = "ami-migrate-message"
    /\ call.tags[3].Key = "ami-migrate-timestamp"

\* The call is the tag copy of goroutine i.
IsTagCopy(i, call) ==
    call.op = "CreateTags" /\ newInst[i] # "" /\ call.target = newInst[i]

NoneEligible ==
    /\ DescribeSucceeded
    /\ \A i \in Tasks : RunningWithoutTag(instances[i])

MutatingCalls(log) == SelectSeq(log, LAMBDA c : c.op \in MutatingOps)

\* C3 as stated: with zero eligible instances no mutating call is made at all
\* and the run returns nil.
C3_NoMutationWhenNoneEligible ==
    NoneEligible =>
        /\ MutatingCalls(mainCalls) = <<>>
        /\ \A i \in Tasks : MutatingCalls(calls[i]) = <<>>
        /\ mainPc = "returned" => ret = "nil"

\* C3 amended: with zero eligible instances the only mutating calls are the
\* skipped writes, one per returned instance in the order of the answer; no
\* goroutine makes a call; the run returns nil.
C3_OnlySkippedWritesWhenNoneEligible ==
    NoneEligible =>
        LET writes == MutatingCalls(mainCalls)
        IN  /\ Len(writes) = idx - 1
            /\ \A k \in 1..Len(writes) :
                   /\ IsAudit(writes[k], "skipped")
                   /\ writes[k].target = instances[k].InstanceId
            /\ \A i \in Tasks : calls[i] = <<>> /\ tpc[i] = "idle"
            /\ mainPc = "returned" => ret = "nil" /\ idx = Len(instances) + 1

C3_Witness ==
    /\ NoneEligible
    /\ mainPc = "returned"
    /\ Len(instances) >= 2
    /\ Len(MutatingCalls(mainCalls)) = Len(instances)

\* C4: the tag copy sends exactly the tags of the source's snapshot whose key
\* is not ami-migrate-status, values unchanged, and no new instance carries
\* an ami-migrate-status tag.
C4_TagCopyDropsOnlyStatus ==
    /\ \A i \in Tasks : \A k \in 1..Len(calls[i]) :
           IsTagCopy(i, calls[i][k]) =>
               /\ Range(calls[i][k].tags) =
                      { t \in Range(instances[i].Tags) : t.Key # "ami-migrate-status" }
               /\ \A a, b \in 1..Len(calls[i][k].tags) :
                      a # b => calls[i][k].tags[a].Key # calls[i][k].tags[b].Key
    /\ \A i \in Tasks :
           newInst[i] # "" =>
               \A t \in cloudTags[newInst[i]] : t.Key # "ami-migrate-status"

C4_Witness ==
    \E i \in Tasks :
        /\ tpc[i] = "done"
        /\ Tag("ami-migrate-status", "completed") \in Range(instances[i].Tags)
        /\ newInst[i] # ""
        /\ Tag("ami-migrate-message", "Migration completed successfully")
               \in cloudTags[newInst[i]]

\* Goroutine i has made a call of operation op with a result other than ok.
FailedCall(i, op) ==
    \E k \in 1..Len(calls[i]) : calls[i][k].op = op /\ calls[i][k].res # "ok"

\* C5: after a failed CreateSnapshot the goroutine makes no StopInstances,
\* RunInstances, TerminateInstances or tag copy, and ends with the failed
\* write on the source.
C5_SnapshotFailureStopsTask ==
    \A i \in Tasks :
        FailedCall(i, "CreateSnapshot") =>
            /\ \A k \in 1..Len(calls[i]) :
                   /\ calls[i][k].op \notin
                          {"StopInstances", "RunInstances", "TerminateInstances",
                           "StartInstances"}
                   /\ ~IsTagCopy(i, calls[i][k])
            /\ newInst[i] = ""
            /\ tpc[i] \in {"failed", "done"}
            /\ tpc[i] = "done" =>
                   /\ IsAudit(calls[i][Len(calls[i])], "failed")
                   /\ calls[i][Len(calls[i])].target = instances[i].InstanceId

C5_Witness ==
    \E i \in Tasks :
        /\ tpc[i] = "done"
        /\ instances[i].State = "running"
        /\ \E k \in 1..Len(calls[i]) :
             calls[i][k].op = "CreateSnapshot" /\ calls[i][k].res = "ok"
        /\ FailedCall(i, "CreateSnapshot")

\* C6 as stated: the completed write of a goroutine whose steps all succeeded
\* names the instance RunInstances returned.
C6_CompletedOnReplacement ==
    \A i \in Tasks : \A k \in 1..Len(calls[i]) :
        IsAudit(calls[i][k], "completed") => calls[i][k].target = newInst[i]

\* The number of calls of goroutine i that are audit writes with this status.
AuditCount(i, status) ==
    Cardinality({ k \in 1..Len(calls[i]) : IsAudit(calls[i][k], status) })

\* C7: one goroutine per eligible instance, none for the others, the wait
\* group counts the goroutines that have not finished, and when
\* MigrateInstances returns every goroutine has finished.
C7_ReturnsAfterAllTasks ==
    /\ wg = Cardinality({ i \in Tasks : tpc[i] \notin {"idle", "done"} })
    /\ \A i \in Tasks : AuditCount(i, "in-progress") <= 1
    /\ (mainPc = "returned" /\ DescribeSucceeded) =>
           \A i \in Tasks :
               IF RunningWithoutTag(instances[i])
               THEN tpc[i] = "idle"
               ELSE /\ tpc[i] = "done"
                    /\ AuditCount(i, "in-progress") = 1

C7_Witness ==
    /\ mainPc = "returned"
    /\ Len(instances) >= 2
    /\ \A i \in Tasks : tpc[i] = "done" /\ Len(calls[i]) >= 5

\* C8: when the selection query succeeded MigrateInstances returns nil,
\* whatever failed in the goroutines.
C8_NilWhenSelectionSucceeds ==
    (mainPc = "returned" /\ DescribeSucceeded) => ret = "nil"

C8_Witness ==
    /\ mainPc = "returned"
    /\ DescribeSucceeded
    /\ Len(instances) >= 2
    /\ \A i \in Tasks :
         /\ tpc[i] = "done"
         /\ \E k \in 1..(Len(calls[i]) - 1) : calls[i][k].res # "ok"
         /\ calls[i][Len(calls[i])].res # "ok"

\* C9: when the selection query fails MigrateInstances returns an error at
\* once: no instance is looked at, no goroutine starts, no other call is made.
C9_SelectionErrorAborts ==
    DescribeFailed =>
        /\ mainPc = "returned"
        /\ ret = "error"
        /\ Len(mainCalls) = 1
        /\ instances = <<>>
        /\ calls = <<>>
        /\ wg = 0

C9_Witness ==
    /\ DescribeFailed
    /\ ret = "error"
    /\ Cardinality(DOMAIN cloudTags) >= 2

\* C10: when StopInstances fails or the wait for stopped expires, the
\* goroutine's only further call is the failed write on the source.
C10_StopFailureEndsTask ==
    \A i \in Tasks : \A k \in 1..Len(calls[i]) :
        ( /\ calls[i][k].op \in {"StopInstances", "WaitStopped"}
          /\ calls[i][k].res # "ok" ) =>
            /\ Len(calls[i]) <= k + 1
            /\ tpc[i] = IF Len(calls[i]) = k THEN "failed" ELSE "done"
            /\ Len(calls[i]) = k + 1 =>
                   /\ IsAudit(calls[i][k + 1], "failed")
                   /\ calls[i][k + 1].target = instances[i].InstanceId
            /\ newInst[i] = ""

C10_Witness ==
    \E i \in Tasks :
        /\ tpc[i] = "done"
        /\ \E k \in 1..Len(calls[i]) :
             calls[i][k].op = "WaitStopped" /\ calls[i][k].res = WaitTimeout

\* The call is an audit write, of any status.
IsAuditWrite(call) ==
    /\ call.op = "CreateTags"
    /\ Len(call.tags) = 3
    /\ call.tags[1].Key = "ami-migrate-status"

\* The place of a call of goroutine i in the order of upgradeInstance's steps;
\* 0 for the calls that are not steps of upgradeInstance.
StepRank(i, call) ==
    CASE call.op = "CreateSnapshot" -> 1
      [] call.op = "StopInstances" -> 2
      [] call.op = "WaitStopped" -> 3
      [] call.op = "RunInstances" -> 4
      [] call.op = "TerminateInstances" -> 5
      [] call.op = "CreateTags" /\ ~IsAuditWrite(call) -> 6
      [] OTHER -> 0

\* The positions in goroutine i's log of the steps of upgradeInstance.
StepPositions(i) == { k \in 1..Len(calls[i]) : StepRank(i, calls[i][k]) > 0 }

EbsCount(inst) ==
    Cardinality({ d \in 1..Len(inst.BlockDeviceMappings) :
                    inst.BlockDeviceMappings[d].Ebs # NoEbs })

OkCount(i, op) ==
    Cardinality({ k \in 1..Len(calls[i]) :
                    calls[i][k].op = op /\ calls[i][k].res = "ok" })

TagCopyDone(i) ==
    \E k \in 1..Len(calls[i]) : IsTagCopy(i, calls[i][k]) /\ calls[i][k].res = "ok"

\* The states in which a later selection query can find an instance that
\* RunInstances launched and nobody stopped.
LaunchedStates == {"pending", "running"}

\* The instance a later selection query returns for the replacement of
\* goroutine i: the tags the copy sent, the state st.
ReplacementSnapshot(i, st) ==
    [InstanceId |-> newInst[i],
     State |-> st,
     InstanceType |-> instances[i].InstanceType,
     BlockDeviceMappings |-> <<>>,
     Tags |-> (CHOOSE c \in Range(calls[i]) : IsTagCopy(i, c)).tags]

\* C12 as stated: once the tag copy has succeeded, a later run migrates the
\* replacement instead of skipping it, in each state a launched instance has.
C12_ReplacementEligible ==
    \A i \in Tasks :
        TagCopyDone(i) =>
            \A st \in LaunchedStates :
                shouldMigrateInstance(ReplacementSnapshot(i, st)).migrate

\* The first call upgradeInstance makes for this instance.
FirstStepOp(inst) ==
    IF EbsCount(inst) > 0 THEN "CreateSnapshot"
    ELSE IF inst.State = "running" THEN "StopInstances" ELSE "RunInstances"

\* C13: the result of an audit write decides nothing.  Whatever the result
\* of the in-progress write, the goroutine goes on with the first step of its
\* instance; it ends failed only when a call other than an audit write
\* failed; the loop goes on after a skipped write; and MigrateInstances
\* returns nil.
C13_AuditFailureIgnored ==
    /\ \A i \in Tasks :
           /\ Len(calls[i]) = 1 => tpc[i] \in {"snapshot", "stop", "run"}
           /\ Len(calls[i]) >= 2 => calls[i][2].op = FirstStepOp(instances[i])
           /\ ( \/ tpc[i] = "failed"
                \/ \E k \in 1..Len(calls[i]) : IsAudit(calls[i][k], "failed") ) =>
                  \E k \in 1..Len(calls[i]) :
                      ~IsAuditWrite(calls[i][k]) /\ calls[i][k].res # "ok"
           /\ (\A k \in StepPositions(i) : calls[i][k].res = "ok") =>
                  tpc[i] \notin {"failed", "warning"}
    /\ Len(MutatingCalls(mainCalls)) =
           Cardinality({ i \in Tasks : i < idx /\ RunningWithoutTag(instances[i]) })
    /\ (mainPc = "returned" /\ DescribeSucceeded) => ret = "nil"

C13_Witness ==
    /\ mainPc = "returned"
    /\ Len(instances) >= 2
    /\ \E k \in 1..Len(mainCalls) :
         IsAudit(mainCalls[k], "skipped") /\ mainCalls[k].res # "ok"
    /\ \E i \in Tasks :
         /\ Len(calls[i]) >= 2
         /\ calls[i][1].res # "ok"
         /\ IsAudit(calls[i][Len(calls[i])], "completed")
         /\ calls[i][Len(calls[i])].res # "ok"

\* C14 as stated: TerminateInstances on the source is issued only after the
\* tag copy to the new instance has completed.
C14_TagsCopiedBeforeTerminate ==
    \A i \in Tasks : \A k \in 1..Len(calls[i]) :
        calls[i][k].op = "TerminateInstances" =>
            \E j \in 1..(k - 1) : IsTagCopy(i, calls[i][j]) /\ calls[i][j].res = "ok"

\* How the error of a step reads in the message of the failed write.
StepErrorText(i, call) ==
    (CASE call.op = "CreateSnapshot" -> "create snapshot: "
       [] call.op \in {"StopInstances", "WaitStopped"} -> "stop instance: "
       [] call.op = "RunInstances" -> "run instances: "
       [] call.op = "TerminateInstances" -> "terminate instance: "
       [] OTHER -> "copy tags: ") \o call.res

\* Every step of upgradeInstance for instance i has been made and returned ok.
AllStepsOk(i) ==
    /\ \A k \in StepPositions(i) : calls[i][k].res = "ok"
    /\ OkCount(i, "CreateSnapshot") = EbsCount(instances[i])
    /\ instances[i].State = "running" =>
           OkCount(i, "StopInstances") = 1 /\ OkCount(i, "WaitStopped") = 1
    /\ OkCount(i, "RunInstances") = 1
    /\ OkCount(i, "TerminateInstances") = 1
    /\ TagCopyDone(i)

\* C15: a goroutine writes completed exactly when every step succeeded; when
\* a step fails, its next and last call is the failed write on the source,
\* whose message carries the error of that step.
C15_TerminalStatus ==
    \A i \in Tasks :
        /\ \A k \in 1..Len(calls[i]) :
               IsAudit(calls[i][k], "completed") => AllStepsOk(i) /\ k = Len(calls[i])
        /\ \A k \in StepPositions(i) :
               calls[i][k].res # "ok" =>
                   /\ Len(calls[i]) <= k + 1
                   /\ tpc[i] = IF Len(calls[i]) = k THEN "failed" ELSE "done"
                   /\ Len(calls[i]) = k + 1 =>
                          /\ IsAudit(calls[i][k + 1], "failed")
                          /\ calls[i][k + 1].target = instances[i].InstanceId
                          /\ calls[i][k + 1].tags[2].Value =
                                 "Failed to upgrade instance: "
                                     \o StepErrorText(i, calls[i][k])
        /\ tpc[i] = "done" =>
               /\ IsAuditWrite(calls[i][Len(calls[i])])
               /\ calls[i][Len(calls[i])].tags[1].Value =
                      IF AllStepsOk(i) THEN "completed" ELSE "failed"

C15_Witness ==
    /\ Len(instances) >= 2
    /\ \E i, j \in Tasks :
         /\ tpc[i] = "done" /\ tpc[j] = "done"
         /\ IsAudit(calls[i][Len(calls[i])], "completed")
         /\ IsAudit(calls[j][Len(calls[j])], "failed")
         /\ \E k \in 1..Len(calls[j]) :
              calls[j][k].op = "TerminateInstances" /\ calls[j][k].res # "ok"

\* The positions of the audit writes in a log.
AuditPositions(log) == { k \in 1..Len(log) : IsAuditWrite(log[k]) }

\* C16: a goroutine's first call is the in-progress write, its last call is
\* its one terminal write (failed, warning or completed), and it makes no
\* other audit write; a skipped instance gets one skipped write from the loop
\* and no in-progress write.
C16_TwoAuditWritesPerTask ==
    /\ \A i \in Tasks :
           /\ tpc[i] \notin {"idle", "spawned"} =>
                  /\ Len(calls[i]) >= 1
                  /\ IsAudit(calls[i][1], "in-progress")
                  /\ calls[i][1].target = instances[i].InstanceId
           /\ tpc[i] # "done" => AuditPositions(calls[i]) \subseteq {1}
           /\ tpc[i] = "done" =>
                  /\ Len(calls[i]) >= 2
                  /\ AuditPositions(calls[i]) = {1, Len(calls[i])}
                  /\ calls[i][Len(calls[i])].tags[1].Value \in
                         {"failed", "warning", "completed"}
    /\ \A k \in AuditPositions(mainCalls) : IsAudit(mainCalls[k], "skipped")
    /\ \A i \in Tasks :
           RunningWithoutTag(instances[i]) =>
               /\ calls[i] = <<>>
               /\ Cardinality({ k \in AuditPositions(mainCalls) :
                                  mainCalls[k].target = instances[i].InstanceId })
                      = IF idx > i THEN 1 ELSE 0

C16_Witness ==
    /\ mainPc = "returned"
    /\ \E i, j \in Tasks :
         /\ tpc[i] = "done"
         /\ Len(calls[i]) >= 6
         /\ RunningWithoutTag(instances[j])

CallCount(i, op) ==
    Cardinality({ k \in 1..Len(calls[i]) : calls[i][k].op = op })

\* C18: a goroutine calls StopInstances at most once, only for a source whose
\* snapshot state is running and after a successful snapshot of every EBS
\* volume; a goroutine that has finished for a running source with no failed
\* snapshot has made the call.
C18_StopOnlyRunningSource ==
    \A i \in Tasks :
        /\ CallCount(i, "StopInstances") <= 1
        /\ instances[i].State # "running" => CallCount(i, "StopInstances") = 0
        /\ CallCount(i, "StopInstances") = 1 =>
               /\ instances[i].State = "running"
               /\ ~FailedCall(i, "CreateSnapshot")
               /\ OkCount(i, "CreateSnapshot") = EbsCount(instances[i])
        /\ ( /\ tpc[i] = "done"
             /\ instances[i].State = "running"
             /\ ~FailedCall(i, "CreateSnapshot") ) =>
               /\ CallCount(i, "StopInstances") = 1
               /\ calls[i][2 + EbsCount(instances[i])].op = "StopInstances"
               /\ calls[i][2 + EbsCount(instances[i])].target = instances[i].InstanceId

C18_Witness ==
    \E i, j \in Tasks :
        /\ tpc[i] = "done" /\ tpc[j] = "done"
        /\ instances[i].State = "running" /\ CallCount(i, "StopInstances") = 1
        /\ instances[j].State = "stopped" /\ CallCount(j, "RunInstances") = 1

RECURSIVE SumCalls(_, _)
\* The number of calls of operation op made by the goroutines 1..n.
SumCalls(n, op) == IF n = 0 THEN 0 ELSE SumCalls(n - 1, op) + CallCount(n, op)

\* C19: a goroutine calls RunInstances at most once, for exactly one instance
\* of the image given to MigrateInstances and of the source's instance type;
\* a run makes no more launches than it has eligible instances.
C19_OneLaunchPerTask ==
    /\ \A i \in Tasks :
           /\ CallCount(i, "RunInstances") <= 1
           /\ \A k \in 1..Len(calls[i]) :
                  calls[i][k].op = "RunInstances" =>
                      /\ calls[i][k].image = "ami-new"
                      /\ calls[i][k].itype = instances[i].InstanceType
                      /\ calls[i][k].min = 1
                      /\ calls[i][k].max = 1
    /\ SumCalls(Len(instances), "RunInstances")
           <= Cardinality({ i \in Tasks : ~RunningWithoutTag(instances[i]) })
    /\ \A k \in 1..Len(mainCalls) : mainCalls[k].op # "RunInstances"

C19_Witness ==
    /\ mainPc = "returned"
    /\ \E i, j \in Tasks :
         /\ instances[i].InstanceType # instances[j].InstanceType
         /\ OkCount(i, "RunInstances") = 1
         /\ OkCount(j, "RunInstances") = 1

\* The ids of the instances RunInstances has returned so far.
Replacements == { newInst[i] : i \in Tasks } \ {""}

\* C20: TerminateInstances is called at most once per goroutine, names the
\* goroutine's source and follows its successful launch; no call terminates
\* or stops a replacement.  So a source that was terminated has a launched
\* replacement that this run has not terminated.
C20_TerminateOnlySourceAfterLaunch ==
    /\ \A i \in Tasks :
           /\ CallCount(i, "TerminateInstances") <= 1
           /\ \A k \in 1..Len(calls[i]) :
                  /\ calls[i][k].op = "TerminateInstances" =>
                         /\ calls[i][k].target = instances[i].InstanceId
                         /\ \E j \in 1..(k - 1) :
                                calls[i][j].op = "RunInstances" /\ calls[i][j].res = "ok"
                  /\ calls[i][k].op \in {"TerminateInstances", "StopInstances"} =>
                         calls[i][k].target \notin Replacements
           /\ OkCount(i, "TerminateInstances") = 1 => newInst[i] \in Replacements
    /\ \A k \in 1..Len(mainCalls) : mainCalls[k].op # "TerminateInstances"

C20_Witness ==
    /\ mainPc = "returned"
    /\ \E i, j \in Tasks :
         /\ OkCount(i, "TerminateInstances") = 1
         /\ \E k \in 1..Len(calls[i]) : IsTagCopy(i, calls[i][k]) /\ calls[i][k].res # "ok"
         /\ OkCount(j, "RunInstances") = 1
         /\ FailedCall(j, "TerminateInstances")

\* The EBS backed mappings of an instance, in attachment order.
EbsMappings(inst) ==
    SelectSeq(inst.BlockDeviceMappings, LAMBDA m : m.Ebs # NoEbs)

\* The CreateSnapshot calls of goroutine i, in the order it made them.
SnapshotCalls(i) == SelectSeq(calls[i], LAMBDA c : c.op = "CreateSnapshot")

\* The operations of the EC2 client the goroutines use (the waiter's polls
\* are recorded as WaitRunning and WaitStopped).
KnownOps ==
    {"CreateTags", "CreateSnapshot", "StartInstances", "StopInstances",
     "RunInstances", "TerminateInstances", "WaitRunning", "WaitStopped"}

\* C21: the snapshot calls of a goroutine are, in attachment order, one per
\* EBS backed mapping of its source, described with the source's id, and
\* follow the in-progress write without a gap; only the last one made can
\* have failed; a later step is reached only with one snapshot per EBS
\* mapping; no call deletes anything.
C21_OneSnapshotPerEbsVolume ==
    \A i \in Tasks :
        LET snaps == SnapshotCalls(i)
            vols == EbsMappings(instances[i])
        IN  /\ Len(snaps) <= Len(vols)
            /\ \A k \in 1..Len(snaps) :
                   /\ snaps[k].target = vols[k].Ebs
                   /\ snaps[k].target # NoEbs
                   /\ snaps[k].desc = "Backup before AMI migration for instance "
                                          \o instances[i].InstanceId
                   /\ calls[i][k + 1] = snaps[k]
                   /\ k < Len(snaps) => snaps[k].res = "ok"
            /\ Len(calls[i]) > Len(snaps) + 1 =>
                   \/ Len(snaps) = Len(vols)
                   \/ /\ snaps[Len(snaps)].res # "ok"
                      /\ Len(calls[i]) = Len(snaps) + 2
                      /\ IsAudit(calls[i][Len(calls[i])], "failed")
            /\ \A k \in 1..Len(calls[i]) : calls[i][k].op \in KnownOps

C21_Witness ==
    \E i \in Tasks :
        /\ tpc[i] = "done"
        /\ Len(instances[i].BlockDeviceMappings) = 2
        /\ instances[i].BlockDeviceMappings[1].Ebs = NoEbs
        /\ Len(SnapshotCalls(i)) = 1
        /\ OkCount(i, "RunInstances") = 1

\* The entry that marks a finished goroutine in OwnNextCall.
Finished == Call("return", "", "ok")

\* The call goroutine i makes after the calls of log, as a function of its
\* own instance and of the results in log alone (the result field of the
\* answer is a placeholder), or Finished.
OwnNextCall(i, log) ==
    LET inst == instances[i]
        id == inst.InstanceId
        vols == EbsMappings(inst)
        snaps == Len(SelectSeq(log, LAMBDA c : c.op = "CreateSnapshot"))
        launch == [Call("RunInstances", "", "ok")
                     EXCEPT !.image = newAMI, !.itype = inst.InstanceType,
                            !.min = 1, !.max = 1]
        upgrade ==
            IF snaps < Len(vols)
            THEN [Call("CreateSnapshot", vols[snaps + 1].Ebs, "ok")
                    EXCEPT !.desc = "Backup before AMI migration for instance " \o id]
            ELSE IF inst.State = "running"
                 THEN Call("StopInstances", id, "ok") ELSE launch
    IN  IF log = <<>>
        THEN CreateTagsCall(id, StatusTags("in-progress", "Starting migration"), "ok")
        ELSE LET last == log[Len(log)]
             IN  IF last.op = "CreateTags" /\ last.target = id
                 THEN IF IsAudit(last, "in-progress") /\ Len(log) = 1
                      THEN upgrade ELSE Finished
                 ELSE IF last.res # "ok"
                 THEN CreateTagsCall(id,
                          StatusTags("failed", "Failed to upgrade instance: "
                                                   \o StepErrorText(i, last)), "ok")
                 ELSE IF last.op = "CreateSnapshot" THEN upgrade
                 ELSE IF last.op = "StopInstances" THEN Call("WaitStopped", id, "ok")
                 ELSE IF last.op = "WaitStopped" THEN launch
                 ELSE IF last.op = "RunInstances"
                 THEN Call("TerminateInstances", id, "ok")
                 ELSE IF last.op = "TerminateInstances"
                 THEN CreateTagsCall(NewInstanceIdOf(i), CopiedTags(inst.Tags), "ok")
                 ELSE CreateTagsCall(id,
                          StatusTags("completed", "Migration completed successfully"),
                          "ok")

\* The tags of instance id after the successful tag writes of log that name it.
RECURSIVE TagsAfterLog(_, _, _)
TagsAfterLog(tags, id, log) ==
    IF log = <<>> THEN tags
    ELSE LET c == Head(log)
         IN  TagsAfterLog(IF c.op = "CreateTags" /\ c.target = id /\ c.res = "ok"
                          THEN ApplyTags(tags, c.tags) ELSE tags,
                          id, Tail(log))

\* The resources goroutine i may name: its source, the source's volumes, the
\* instance it launched (RunInstances names no resource).
OwnResources(i) ==
    {"", instances[i].InstanceId}
        \cup { EbsMappings(instances[i])[d].Ebs :
                 d \in 1..Len(EbsMappings(instances[i])) }
        \cup (IF OkCount(i, "RunInstances") > 0 THEN {NewInstanceIdOf(i)} ELSE {})

\* C22: goroutines of different instances do not interfere.  Every call of
\* a goroutine names its own source, a volume of its source or the instance
\* it launched itself; each of its calls, and whether it has finished, is
\* determined by its own instance and the results of its own earlier calls;
\* the tags of its source and of its replacement are the result of the
\* loop's and its own successful tag writes and of no other goroutine's.
C22_TasksDoNotInterfere ==
    \A i \in Tasks :
        LET id == instances[i].InstanceId
        IN  /\ \A k \in 1..Len(calls[i]) :
                   /\ calls[i][k].target \in OwnResources(i)
                   /\ \A j \in Tasks \ {i} : calls[i][k].target \notin
                          {instances[j].InstanceId, NewInstanceIdOf(j)}
                   /\ [calls[i][k] EXCEPT !.res = "ok"] =
                          OwnNextCall(i, SubSeq(calls[i], 1, k - 1))
            /\ tpc[i] = "done" <=> calls[i] # <<>> /\ OwnNextCall(i, calls[i]) = Finished
            /\ tpc[i] = "idle" => calls[i] = <<>>
            /\ newInst[i] = IF OkCount(i, "RunInstances") > 0
                            THEN NewInstanceIdOf(i) ELSE ""
            /\ cloudTags[id] =
                   TagsAfterLog(Range(instances[i].Tags), id, mainCalls \o calls[i])
            /\ newInst[i] # "" =>
                   cloudTags[newInst[i]] = TagsAfterLog({}, newInst[i], calls[i])

C22_Witness ==
    /\ mainPc = "returned"
    /\ \E i, j \in Tasks :
         /\ tpc[i] = "done" /\ tpc[j] = "done"
         /\ IsAudit(calls[i][Len(calls[i])], "completed")
         /\ IsAudit(calls[j][Len(calls[j])], "failed")
         /\ cloudTags[newInst[i]] # {}

AuditKeys == {"ami-migrate-status", "ami-migrate-message", "ami-migrate-timestamp"}

\* The keys of the tags instance id carries on the EC2 side.
KeysOn(id) == { t.Key : t \in cloudTags[id] }

\* The instances a CreateTags call of this run has reached.
WrittenInstances ==
    { id \in DOMAIN cloudTags :
        \/ \E k \in 1..Len(mainCalls) :
               /\ mainCalls[k].op = "CreateTags"
               /\ mainCalls[k].target = id /\ mainCalls[k].res = "ok"
        \/ \E i \in Tasks : \E k \in 1..Len(calls[i]) :
               /\ calls[i][k].op = "CreateTags"
               /\ calls[i][k].target = id /\ calls[i][k].res = "ok" }

\* C23 as stated: on every instance a tag write of this run has reached, the
\* status key is present exactly when the message and timestamp keys are.
C23_AuditTripleAllOrNothing ==
    \A id \in WrittenInstances :
        "ami-migrate-status" \in KeysOn(id) <=>
            {"ami-migrate-message", "ami-migrate-timestamp"} \subseteq KeysOn(id)

\* C23, amended: an instance of the selection that a tag write of this run
\* has reached carries all three audit keys, one tag each, whatever it
\* carried before; every tag write on it sends the three keys together; a
\* replacement never carries the status key, and carries the message and
\* timestamp tags exactly as its source's description had them once the tag
\* copy has succeeded, and none before.
C23_TripleOnSourceNotOnReplacement ==
    /\ \A i \in Tasks :
           LET id == instances[i].InstanceId
           IN  /\ id \in WrittenInstances =>
                      /\ AuditKeys \subseteq KeysOn(id)
                      /\ \A a, b \in cloudTags[id] : a.Key = b.Key => a = b
               /\ \A k \in 1..Len(calls[i]) :
                      calls[i][k].op = "CreateTags" /\ calls[i][k].target = id =>
                          { calls[i][k].tags[n].Key : n \in 1..Len(calls[i][k].tags) }
                              = AuditKeys
               /\ newInst[i] # "" =>
                      /\ "ami-migrate-status" \notin KeysOn(newInst[i])
                      /\ { t \in cloudTags[newInst[i]] : t.Key \in AuditKeys } =
                             IF TagCopyDone(i)
                             THEN { t \in Range(instances[i].Tags) :
                                      t.Key \in AuditKeys \ {"ami-migrate-status"} }
                             ELSE {}
    /\ \A k \in 1..Len(mainCalls) :
           mainCalls[k].op = "CreateTags" =>
               { mainCalls[k].tags[n].Key : n \in 1..Len(mainCalls[k].tags) } = AuditKeys

C23_Witness ==
    \E i \in Tasks :
        /\ tpc[i] = "done"
        /\ "ami-migrate-status" \notin { t.Key : t \in Range(instances[i].Tags) }
        /\ "ami-migrate-message" \in { t.Key : t \in Range(instances[i].Tags) }
        /\ Tag("ami-migrate-status", "completed") \in cloudTags[instances[i].InstanceId]
        /\ newInst[i] # ""
        /\ KeysOn(newInst[i]) \cap AuditKeys =
               {"ami-migrate-message", "ami-migrate-timestamp"}

TerminalStatuses == {"completed", "failed", "warning"}

\* The audit writes goroutine i has made on its source.
SourceWrites(i) ==
    SelectSeq(calls[i], LAMBDA c : c.op = "CreateTags"
                                      /\ c.target = instances[i].InstanceId)

\* MigrateInstances has returned; every instance that was selected for
\* migration has a finished goroutine whose last call is a terminal write;
\* where all its audit writes succeeded the source carries a terminal status.
Settled ==
    /\ mainPc = "returned"
    /\ ret # "none"
    /\ wg = 0
    /\ \A i \in Tasks :
           IF shouldMigrateInstance(instances[i]).migrate
           THEN /\ tpc[i] = "done"
                /\ IsAuditWrite(calls[i][Len(calls[i])])
                /\ calls[i][Len(calls[i])].tags[1].Value \in TerminalStatuses
                /\ (\A k \in 1..Len(SourceWrites(i)) : SourceWrites(i)[k].res = "ok") =>
                       /\ Tag("ami-migrate-status", "in-progress")
                              \notin cloudTags[instances[i].InstanceId]
                       /\ \E st \in TerminalStatuses :
                              Tag("ami-migrate-status", st)
                                  \in cloudTags[instances[i].InstanceId]
           ELSE tpc[i] = "idle"

\* C24: under FairSpec MigrateInstances eventually returns and stays
\* returned, with every goroutine that was started finished after a terminal
\* write; whenever it has returned, every started goroutine has finished and
\* no source whose audit writes succeeded carries the status in-progress.
C24_EveryTaskFinishes ==
    /\ <>[]Settled
    /\ [](mainPc = "returned" => Settled)

C24_Witness ==
    /\ Settled
    /\ \E i \in Tasks :
         /\ tpc[i] = "done"
         /\ Len(SourceWrites(i)) = 2
         /\ SourceWrites(i)[1].res = "ok" /\ SourceWrites(i)[2].res = "ok"
         /\ IsAudit(SourceWrites(i)[1], "in-progress")
         /\ Tag("ami-migrate-status", "failed") \in cloudTags[instances[i].InstanceId]

====
